---- MODULE Spec2Model ----
(***************************************************************************)
(* A model of hack-assemble.py, the two-pass assembler for the Hack        *)
(* machine language.  A Python str is a sequence of one-character         *)
(* strings, a Python int is an integer, a dict is a function whose domain  *)
(* is its key set.  The five passes of Assembler.__init__ and the final    *)
(* print are one action each, taken in the order the code calls them.      *)
(***************************************************************************)
EXTENDS Integers, Sequences, FiniteSets, TLC

VARIABLES
    stdin,              \* sys.stdin.readlines(): the raw lines, as read
    pc,                 \* the next step of the run, "done" or "aborted"
    assembly_code,      \* self.assembly_code
    intermediary_code,  \* self.intermediary_code
    machine_code,       \* self.machine_code
    labels,             \* self.labels
    variables,          \* self.variables: a reference to a dict on the heap
    heap,               \* the dict objects, by reference
    stdout              \* the text written by print

vars == <<stdin, pc, assembly_code, intermediary_code, machine_code,
          labels, variables, heap, stdout>>

-----------------------------------------------------------------------------
(* Python values and built-ins                                             *)

\* The None object: no str equals it (every element of a str is one character).
None == <<"None">>

\* A dict value that may be a str or an int carries its type.
PyStr(s) == [type |-> "str", v |-> s]
PyInt(n) == [type |-> "int", v |-> n]

Digits == <<"0", "1", "2", "3", "4", "5", "6", "7", "8", "9">>
DigitChars == {Digits[i] : i \in 1..Len(Digits)}
DigitValue(c) == (CHOOSE i \in 1..Len(Digits) : Digits[i] = c) - 1

\* The characters str.split() treats as white space (those TLA+ can write).
Whitespace == {" ", "\t", "\n", "\r", "\f"}

SetMin(S) == CHOOSE x \in S : \A y \in S : x <= y

\* s.startswith(c) for a one-character prefix c
startswith(s, c) == Len(s) >= 1 /\ s[1] = c

\* s.find(sub): the 0-based index of the first occurrence, or -1
find(s, sub) ==
    LET hits == {i \in 0..(Len(s) - Len(sub)) :
                    SubSeq(s, i + 1, i + Len(sub)) = sub}
    IN  IF hits = {} THEN -1 ELSE SetMin(hits)

\* A slice bound as Python normalises it: negative counts from the end,
\* and the result is clamped to 0..len.
slice_bound(i, n) ==
    IF i < 0 THEN (IF i + n < 0 THEN 0 ELSE i + n)
    ELSE IF i > n THEN n ELSE i

\* s[start:stop]
slice(s, start, stop) ==
    LET a == slice_bound(start, Len(s))
        b == slice_bound(stop, Len(s))
    IN  IF a >= b THEN <<>> ELSE SubSeq(s, a + 1, b)

\* s[start:]
slice_from(s, start) == slice(s, start, Len(s))

\* s.split(): the maximal runs of non-white-space characters, in order
RECURSIVE split_scan(_, _, _, _)
split_scan(s, i, word, words) ==
    IF i > Len(s)
    THEN IF word = <<>> THEN words ELSE Append(words, word)
    ELSE IF s[i] \in Whitespace
         THEN split_scan(s, i + 1, <<>>,
                         IF word = <<>> THEN words ELSE Append(words, word))
         ELSE split_scan(s, i + 1, Append(word, s[i]), words)

split(s) == split_scan(s, 1, <<>>, <<>>)

\* sep.join(words)
RECURSIVE join(_, _)
join(sep, words) ==
    IF words = <<>> THEN <<>>
    ELSE IF Len(words) = 1 THEN words[1]
    ELSE words[1] \o sep \o join(sep, Tail(words))

\* s.isdigit(), for the ASCII digits
isdigit(s) == s # <<>> /\ \A i \in 1..Len(s) : s[i] \in DigitChars

\* int(s) of a str of decimal digits
RECURSIVE int_of_digits(_)
int_of_digits(s) ==
    IF s = <<>> THEN 0
    ELSE 10 * int_of_digits(SubSeq(s, 1, Len(s) - 1)) + DigitValue(s[Len(s)])

\* int(x): an int is returned as it is, a str is parsed
int(x) == IF x.type = "int" THEN x.v ELSE int_of_digits(x.v)

\* bin(i) without its "0b": the binary digits of i >= 0, most significant first
RECURSIVE bin_digits(_)
bin_digits(i) ==
    IF i < 2 THEN <<Digits[i + 1]>>
    ELSE Append(bin_digits(i \div 2), Digits[(i % 2) + 1])

RECURSIVE zeros(_)
zeros(k) == IF k <= 0 THEN <<>> ELSE <<"0">> \o zeros(k - 1)

\* format(i, "#0<width>b") for i >= 0: "0b", then the digits zero-padded so
\* that the whole is at least width characters; a longer number is not cut.
format_b(i, width) ==
    LET d == bin_digits(i)
    IN  <<"0", "b">> \o zeros(width - 2 - Len(d)) \o d

\* dict helpers: d[k] = v, and a dict from its items
EmptyDict == [k \in {} |-> 0]
DictSet(d, k, v) == [x \in (DOMAIN d) \cup {k} |-> IF x = k THEN v ELSE d[x]]
DictOf(items) ==
    [k \in {p[1] : p \in items} |-> (CHOOSE p \in items : p[1] = k)[2]]

-----------------------------------------------------------------------------
(* The class-level tables                                                  *)

comp_table_items ==
    { <<<<"0">>, <<"0", "1", "0", "1", "0", "1", "0">>>>,
      <<<<"1">>, <<"0", "1", "1", "1", "1", "1", "1">>>>,
      <<<<"-", "1">>, <<"0", "1", "1", "1", "0", "1", "0">>>>,
      <<<<"D">>, <<"0", "0", "0", "1", "1", "0", "0">>>>,
      <<<<"A">>, <<"0", "1", "1", "0", "0", "0", "0">>>>,
      <<<<"M">>, <<"1", "1", "1", "0", "0", "0", "0">>>>,
      <<<<"!", "D">>, <<"0", "0", "0", "1", "1", "0", "1">>>>,
      <<<<"!", "A">>, <<"0", "1", "1", "0", "0", "0", "1">>>>,
      <<<<"!", "M">>, <<"1", "1", "1", "0", "0", "0", "1">>>>,
      <<<<"-", "D">>, <<"0", "0", "0", "1", "1", "1", "1">>>>,
      <<<<"-", "A">>, <<"0", "1", "1", "0", "0", "1", "1">>>>,
      <<<<"-", "M">>, <<"1", "1", "1", "0", "0", "1", "1">>>>,
      <<<<"D", "+", "1">>, <<"0", "0", "1", "1", "1", "1", "1">>>>,
      <<<<"A", "+", "1">>, <<"0", "1", "1", "0", "1", "1", "1">>>>,
      <<<<"M", "+", "1">>, <<"1", "1", "1", "0", "1", "1", "1">>>>,
      <<<<"D", "-", "1">>, <<"0", "0", "0", "1", "1", "1", "0">>>>,
      <<<<"A", "-", "1">>, <<"0", "1", "1", "0", "0", "1", "0">>>>,
      <<<<"M", "-", "1">>, <<"1", "1", "1", "0", "0", "1", "0">>>>,
      <<<<"D", "+", "A">>, <<"0", "0", "0", "0", "0", "1", "0">>>>,
      <<<<"D", "+", "M">>, <<"1", "0", "0", "0", "0", "1", "0">>>>,
      <<<<"D", "-", "A">>, <<"0", "0", "1", "0", "0", "1", "1">>>>,
      <<<<"D", "-", "M">>, <<"1", "0", "1", "0", "0", "1", "1">>>>,
      <<<<"A", "-", "D">>, <<"0", "0", "0", "0", "1", "1", "1">>>>,
      <<<<"M", "-", "D">>, <<"1", "0", "0", "0", "1", "1", "1">>>>,
      <<<<"D", "&", "A">>, <<"0", "0", "0", "0", "0", "0", "0">>>>,
      <<<<"D", "&", "M">>, <<"1", "0", "0", "0", "0", "0", "0">>>>,
      <<<<"D", "|", "A">>, <<"0", "0", "1", "0", "1", "0", "1">>>>,
      <<<<"D", "|", "M">>, <<"1", "0", "1", "0", "1", "0", "1">>>>,
      <<None, <<"0", "0", "0", "0", "0", "0", "0">>>> }

jump_table_items ==
    { <<None, <<"0", "0", "0">>>>, <<<<"J", "G", "T">>, <<"0", "0", "1">>>>,
      <<<<"J", "E", "Q">>, <<"0", "1", "0">>>>, <<<<"J", "G", "E">>, <<"0", "1", "1">>>>,
      <<<<"J", "L", "T">>, <<"1", "0", "0">>>>, <<<<"J", "N", "E">>, <<"1", "0", "1">>>>,
      <<<<"J", "L", "E">>, <<"1", "1", "0">>>>, <<<<"J", "M", "P">>, <<"1", "1", "1">>>> }

dest_table_items ==
    { <<None, <<"0", "0", "0">>>>, <<<<"M">>, <<"0", "0", "1">>>>,
      <<<<"D">>, <<"0", "1", "0">>>>, <<<<"M", "D">>, <<"0", "1", "1">>>>,
      <<<<"A">>, <<"1", "0", "0">>>>, <<<<"A", "M">>, <<"1", "0", "1">>>>,
      <<<<"A", "D">>, <<"1", "1", "0">>>>, <<<<"A", "D", "M">>, <<"1", "1", "1">>>> }

predefined_symbols_items ==
    { <<<<"R", "0">>, <<"0">>>>, <<<<"R", "1">>, <<"1">>>>,
      <<<<"R", "2">>, <<"2">>>>, <<<<"R", "3">>, <<"3">>>>,
      <<<<"R", "4">>, <<"4">>>>, <<<<"R", "5">>, <<"5">>>>,
      <<<<"R", "6">>, <<"6">>>>, <<<<"R", "7">>, <<"7">>>>,
      <<<<"R", "8">>, <<"8">>>>, <<<<"R", "9">>, <<"9">>>>,
      <<<<"R", "1", "0">>, <<"1", "0">>>>, <<<<"R", "1", "1">>, <<"1", "1">>>>,
      <<<<"R", "1", "2">>, <<"1", "2">>>>, <<<<"R", "1", "3">>, <<"1", "3">>>>,
      <<<<"R", "1", "4">>, <<"1", "4">>>>, <<<<"R", "1", "5">>, <<"1", "5">>>>,
      <<<<"S", "C", "R", "E", "E", "N">>, <<"1", "6", "3", "8", "4">>>>, <<<<"K", "B", "D">>, <<"2", "4", "5", "7", "6">>>>,
      <<<<"S", "P">>, <<"0">>>>, <<<<"L", "C", "L">>, <<"1">>>>,
      <<<<"A", "R", "G">>, <<"2">>>>, <<<<"T", "H", "I", "S">>, <<"3">>>>,
      <<<<"T", "H", "A", "T">>, <<"4">>>> }


comp_table == DictOf(comp_table_items)
jump_table == DictOf(jump_table_items)
dest_table == DictOf(dest_table_items)

\* The values of predefined_symbols are str, as the source writes them.
predefined_symbols ==
    [k \in {p[1] : p \in predefined_symbols_items} |->
        PyStr((CHOOSE p \in predefined_symbols_items : p[1] = k)[2])]

-----------------------------------------------------------------------------
(* remove_unnecessary                                                      *)

\* strip_line with its two steps exchanged: the comment is looked for in
\* the line as read, the white space goes after.
strip_line_comment_first(line) ==
    LET comment_start == find(line, <<"/", "/">>)
        cut == IF comment_start # -1 THEN slice(line, 0, comment_start)
               ELSE line
    IN  join(<<>>, split(cut))

\* One line of the loop: white space out, then the comment cut off.
strip_line(line) ==
    LET stripped == join(<<>>, split(line))
        comment_start == find(stripped, <<"/", "/">>)
    IN  IF comment_start # -1 THEN slice(stripped, 0, comment_start)
        ELSE stripped

RECURSIVE remove_unnecessary_loop(_, _, _)
remove_unnecessary_loop(code, i, assembly) ==
    IF i > Len(code) THEN assembly
    ELSE LET stripped == strip_line(code[i])
         IN  remove_unnecessary_loop(code, i + 1,
                 IF stripped # <<>> THEN Append(assembly, stripped)
                 ELSE assembly)

remove_unnecessary ==
    /\ pc = "remove_unnecessary"
    /\ assembly_code' = remove_unnecessary_loop(assembly_code, 1, <<>>)
    /\ pc' = "find_labels"
    /\ UNCHANGED <<stdin, intermediary_code, machine_code, labels, variables,
                   heap, stdout>>

-----------------------------------------------------------------------------
(* find_labels                                                             *)

\* find_labels_loop without its continue: a declaration is counted as an
\* instruction too.
RECURSIVE find_labels_loop_counting_declarations(_, _, _)
find_labels_loop_counting_declarations(code, index, st) ==
    IF index >= Len(code) THEN st
    ELSE LET line == code[index + 1]
         IN  IF startswith(line, "(")
             THEN find_labels_loop_counting_declarations(code, index + 1,
                    [labels |-> DictSet(st.labels, slice(line, 1, -1),
                                        st.cur_instruction),
                     label_indexes |-> Append(st.label_indexes, index),
                     cur_instruction |-> st.cur_instruction + 1])
             ELSE find_labels_loop_counting_declarations(code, index + 1,
                    [st EXCEPT !.cur_instruction = st.cur_instruction + 1])

\* The first loop, from the 0-based index on; st holds the loop's locals
\* and self.labels.
RECURSIVE find_labels_loop(_, _, _)
find_labels_loop(code, index, st) ==
    IF index >= Len(code) THEN st
    ELSE LET line == code[index + 1]
         IN  IF startswith(line, "(")
             THEN find_labels_loop(code, index + 1,
                    [labels |-> DictSet(st.labels, slice(line, 1, -1),
                                        st.cur_instruction),
                     label_indexes |-> Append(st.label_indexes, index),
                     cur_instruction |-> st.cur_instruction])
             ELSE find_labels_loop(code, index + 1,
                    [st EXCEPT !.cur_instruction = st.cur_instruction + 1])

\* sorted_reverse without reverse=True: the smallest index first.
sorted_forward(indexes) ==
    LET S == {indexes[i] : i \in 1..Len(indexes)}
    IN  [i \in 1..Cardinality(S) |->
            CHOOSE x \in S : Cardinality({y \in S : y < x}) = i - 1]

\* sorted(indexes, reverse=True), for the distinct indexes enumerate() gives
sorted_reverse(indexes) ==
    LET S == {indexes[i] : i \in 1..Len(indexes)}
    IN  [i \in 1..Cardinality(S) |->
            CHOOSE x \in S : Cardinality({y \in S : y > x}) = i - 1]

\* del code[i], i a 0-based index of code
del(code, i) == SubSeq(code, 1, i) \o SubSeq(code, i + 2, Len(code))

\* The second loop: the declarations are deleted in the order given.
RECURSIVE delete_all(_, _)
delete_all(code, order) ==
    IF order = <<>> THEN code
    ELSE delete_all(del(code, Head(order)), Tail(order))

find_labels ==
    /\ pc = "find_labels"
    /\ LET st == find_labels_loop(assembly_code, 0,
                    [labels |-> labels, label_indexes |-> <<>>,
                     cur_instruction |-> 0])
       IN  /\ labels' = st.labels
           /\ assembly_code' =
                  delete_all(assembly_code, sorted_reverse(st.label_indexes))
    /\ pc' = "find_variables"
    /\ UNCHANGED <<stdin, intermediary_code, machine_code, variables, heap,
                   stdout>>

-----------------------------------------------------------------------------
(* find_variables                                                          *)

\* is_new_variable without its second test: a label's name is new.
is_new_variable_without_labels(symbol, vs, ls) == symbol \notin DOMAIN vs

\* The test of line 117: the symbol gets a new address.
is_new_variable(symbol, vs, ls) ==
    symbol \notin DOMAIN vs /\ symbol \notin DOMAIN ls

\* The loop, from line i on; st holds next_address and the dict
\* self.variables refers to.
RECURSIVE find_variables_loop(_, _, _, _)
find_variables_loop(code, i, ls, st) ==
    IF i > Len(code) THEN st
    ELSE LET line == code[i]
             symbol == slice_from(line, 1)
         IN  IF ~startswith(line, "@") THEN find_variables_loop(code, i + 1, ls, st)
             ELSE IF isdigit(symbol) THEN find_variables_loop(code, i + 1, ls, st)
             ELSE IF is_new_variable(symbol, st.variables, ls)
                  THEN find_variables_loop(code, i + 1, ls,
                         [variables |-> DictSet(st.variables, symbol,
                                                PyInt(st.next_address)),
                          next_address |-> st.next_address + 1])
                  ELSE find_variables_loop(code, i + 1, ls, st)

find_variables ==
    /\ pc = "find_variables"
    /\ LET st == find_variables_loop(assembly_code, 1, labels,
                    [variables |-> heap[variables], next_address |-> 16])
       IN  heap' = [heap EXCEPT ![variables] = st.variables]
    /\ pc' = "build_intermediary"
    /\ UNCHANGED <<stdin, assembly_code, intermediary_code, machine_code,
                   labels, variables, stdout>>

-----------------------------------------------------------------------------
(* build_intermediary                                                      *)

\* dereference with its two tests exchanged: the label table first.
dereference_labels_first(address, vs, ls) ==
    IF address \in DOMAIN ls THEN PyInt(ls[address])
    ELSE IF address \in DOMAIN vs THEN vs[address]
    ELSE PyStr(address)

\* Lines 131-135: the operand of an address instruction, dereferenced.
dereference(address, vs, ls) ==
    IF address \in DOMAIN vs THEN vs[address]
    ELSE IF address \in DOMAIN ls THEN PyInt(ls[address])
    ELSE PyStr(address)

\* Lines 139-180: the instruction of a line that is no address instruction.
\* The result is the list of what the loop body appends: one instruction,
\* or none when the body falls through its four tests.
compute_instruction(line) ==
    LET dest_idx == find(line, <<"=">>)
        jump_idx == find(line, <<";">>)
    IN  IF dest_idx = -1 /\ jump_idx = -1
        THEN <<[type |-> "C", dest |-> None, comp |-> line, jump |-> None]>>
        ELSE IF dest_idx # -1 /\ jump_idx = -1
        THEN <<[type |-> "C", dest |-> slice(line, 0, dest_idx),
                comp |-> slice_from(line, dest_idx + 1), jump |-> None]>>
        ELSE IF dest_idx = -1 /\ jump_idx # -1
        THEN <<[type |-> "C", dest |-> None,
                comp |-> slice(line, 0, jump_idx),
                jump |-> slice_from(line, jump_idx + 1)]>>
        ELSE IF dest_idx # -1 /\ jump_idx # -1
        THEN <<[type |-> "C", dest |-> slice(line, 0, dest_idx),
                comp |-> slice(line, dest_idx + 1, jump_idx),
                jump |-> slice_from(line, jump_idx + 1)]>>
        ELSE <<>>

\* The loop body for one line.
instruction_of(line, vs, ls) ==
    IF startswith(line, "@")
    THEN <<[type |-> "A",
            address |-> int(dereference(slice_from(line, 1), vs, ls))]>>
    ELSE compute_instruction(line)

RECURSIVE build_intermediary_loop(_, _, _, _, _)
build_intermediary_loop(code, i, vs, ls, intermediary) ==
    IF i > Len(code) THEN intermediary
    ELSE build_intermediary_loop(code, i + 1, vs, ls,
             intermediary \o instruction_of(code[i], vs, ls))

build_intermediary ==
    /\ pc = "build_intermediary"
    /\ intermediary_code' =
           build_intermediary_loop(assembly_code, 1, heap[variables], labels, <<>>)
    /\ pc' = "assemble"
    /\ UNCHANGED <<stdin, assembly_code, machine_code, labels, variables,
                   heap, stdout>>

-----------------------------------------------------------------------------
(* assemble                                                                *)

get_binary_string(i, n) == slice_from(format_b(i, n + 2), 2)

\* Lines 197-199 raise KeyError for a token that is no key of its table.
raises_KeyError(ins) ==
    \/ ins.dest \notin DOMAIN dest_table
    \/ ins.comp \notin DOMAIN comp_table
    \/ ins.jump \notin DOMAIN jump_table

\* The line the loop body appends for an instruction it can encode.
machine_line(ins) ==
    IF ins.type = "A" THEN <<"0">> \o get_binary_string(ins.address, 15)
    ELSE <<"1", "1", "1">> \o comp_table[ins.comp] \o dest_table[ins.dest]
             \o jump_table[ins.jump]

\* assemble_loop with the KeyError caught: the instruction is passed over
\* and the loop goes on.
RECURSIVE assemble_loop_skipping(_, _, _)
assemble_loop_skipping(intermediary, i, assembled) ==
    IF i > Len(intermediary) THEN [raised |-> FALSE, assembled |-> assembled]
    ELSE LET ins == intermediary[i]
         IN  IF ins.type # "A" /\ raises_KeyError(ins)
             THEN assemble_loop_skipping(intermediary, i + 1, assembled)
             ELSE assemble_loop_skipping(intermediary, i + 1,
                                         Append(assembled, machine_line(ins)))

\* The loop: it ends at the first instruction that raises, and then the
\* assignment of line 205 is not reached.
RECURSIVE assemble_loop(_, _, _)
assemble_loop(intermediary, i, assembled) ==
    IF i > Len(intermediary) THEN [raised |-> FALSE, assembled |-> assembled]
    ELSE LET ins == intermediary[i]
         IN  IF ins.type # "A" /\ raises_KeyError(ins)
             THEN [raised |-> TRUE, assembled |-> assembled]
             ELSE assemble_loop(intermediary, i + 1,
                                Append(assembled, machine_line(ins)))

assemble ==
    /\ pc = "assemble"
    /\ LET r == assemble_loop(intermediary_code, 1, <<>>)
       IN  IF r.raised
           THEN pc' = "aborted" /\ UNCHANGED machine_code
           ELSE pc' = "print" /\ machine_code' = r.assembled
    /\ UNCHANGED <<stdin, assembly_code, intermediary_code, labels, variables,
                   heap, stdout>>

-----------------------------------------------------------------------------
(* get_machine_code and the module's print                                 *)

get_machine_code(code) == join(<<"\n">>, code)

\* print(asm.get_machine_code()): the text and print's own line end.  It is
\* reached only when Assembler(...) has returned.
print ==
    /\ pc = "print"
    /\ stdout' = get_machine_code(machine_code) \o <<"\n">>
    /\ pc' = "done"
    /\ UNCHANGED <<stdin, assembly_code, intermediary_code, machine_code,
                   labels, variables, heap>>

-----------------------------------------------------------------------------
(* The inputs: what sys.stdin.readlines() may return                       *)

MaxLines == 3
MaxRawLen == 3
MaxLiteral == 17
MaxBits == 16

\* readlines() keeps each line's end.
Line(body) == body \o <<"\n">>

SeqsUpTo(S, n) == UNION {[1..k -> S] : k \in 0..n}

\* Programs of labels, variables and predefined symbols; "(LK" is a
\* declaration that lacks its closing bracket.
SymbolLines ==
    { <<"(", "L", ")">>, <<"@", "L">>, <<"@", "x">>, <<"@", "y">>,
      <<"(", "R", "3", ")">>, <<"@", "R", "3">>, <<"D">>, <<"(", "L", "K">> }

SymbolPrograms == SeqsUpTo({Line(b) : b \in SymbolLines}, MaxLines)

\* Compute instructions, from their tokens.
render(d, c, j) ==
    (IF d = None THEN <<>> ELSE d \o <<"=">>) \o c
        \o (IF j = None THEN <<>> ELSE <<";">> \o j)

\* Every combination of the tables' keys.
ValidLines ==
    {render(d, c, j) : d \in DOMAIN dest_table,
                       c \in (DOMAIN comp_table) \ {None},
                       j \in DOMAIN jump_table}

\* One token that is no key, empty or not, among keys; "D=" and "=D";
\* lines with ";" before "=" or a separator too many.
SomeDest == {None, <<"M", "D">>}
SomeComp == {<<"0">>, <<"D", "+", "1">>}
SomeJump == {None, <<"J", "M", "P">>}
InvalidLines ==
    {render(d, c, j) : d \in {<<>>, <<"Q">>}, c \in SomeComp, j \in SomeJump}
    \cup {render(d, c, j) : d \in SomeDest, c \in {<<>>, <<"D", "+">>},
                            j \in SomeJump}
    \cup {render(d, c, j) : d \in SomeDest, c \in SomeComp,
                            j \in {<<>>, <<"J">>}}
    \cup { <<"D", "=">>, <<"=", "D">>,
           <<"D", ";", "J", "M", "P", "=", "M">>, <<"D", "=", "A", "=", "M">>,
           <<"0", ";", "J", "M", "P", ";", "J", "M", "P">> }

Prefixes == { <<Line(<<"D", "=", "A">>)>>, <<Line(<<"@", "5">>)>> }

ComputePrograms ==
    {<<Line(c)>> : c \in ValidLines \cup InvalidLines}
    \cup {p \o <<Line(c)>> : p \in Prefixes,
                             c \in InvalidLines \cup {<<"0", ";", "J", "M", "P">>}}

\* Address instructions with a decimal literal: the small numbers, the
\* powers of two and their predecessors, each also with a leading zero.
RECURSIVE DecimalText(_)
DecimalText(n) ==
    IF n < 10 THEN <<Digits[n + 1]>>
    ELSE Append(DecimalText(n \div 10), Digits[(n % 10) + 1])

LiteralValues ==
    (0..MaxLiteral) \cup {2^k - 1 : k \in 1..MaxBits} \cup {2^k : k \in 1..MaxBits}

LiteralTexts ==
    {DecimalText(n) : n \in LiteralValues}
    \cup {<<"0">> \o DecimalText(n) : n \in LiteralValues}

LiteralPrefixes == { <<>>, <<Line(<<"(", "5", ")">>)>>, <<Line(<<"@", "x">>)>> }

LiteralPrograms ==
    {p \o <<Line(<<"@">> \o t)>> : p \in LiteralPrefixes, t \in LiteralTexts}

\* Raw text: one line or two, every string of white space, comment
\* characters and a letter.
RawChars == {" ", "/", "D"}
RawLines == {Line(b) : b \in SeqsUpTo(RawChars, MaxRawLen)}
RawPrograms == {<<r>> : r \in RawLines} \cup (RawLines \X RawLines)

Inputs == SymbolPrograms \cup ComputePrograms \cup LiteralPrograms \cup RawPrograms

-----------------------------------------------------------------------------
(* Assembler.__init__, lines 44-49, and the run                            *)

ClassTable == "Assembler.predefined_symbols"

\* copy left out: the same dict object
copy_alias(ref) == ref

\* dict.copy(): a new dict object with the same items
copy(ref) == "self.variables"

Init ==
    /\ stdin \in Inputs
    /\ pc = "remove_unnecessary"
    /\ assembly_code = stdin
    /\ intermediary_code = <<>>
    /\ machine_code = <<>>
    /\ labels = EmptyDict
    /\ variables = copy(ClassTable)
    /\ heap = [r \in {ClassTable, variables} |-> predefined_symbols]
    /\ stdout = <<>>

Next ==
    \/ remove_unnecessary
    \/ find_labels
    \/ find_variables
    \/ build_intermediary
    \/ assemble
    \/ print

Spec == Init /\ [][Next]_vars

-----------------------------------------------------------------------------
(* What the properties speak of, stated from the input text and the Hack   *)
(* language rather than from the passes above                              *)

\* A raw line with its white space removed, then cut at the first "//".
NoSpace(raw) == SelectSeq(raw, LAMBDA c : c \notin Whitespace)
CommentStarts(s) == {i \in 1..(Len(s) - 1) : s[i] = "/" /\ s[i + 1] = "/"}
Clean(raw) ==
    LET s == NoSpace(raw)
    IN  IF CommentStarts(s) = {} THEN s
        ELSE SubSeq(s, 1, SetMin(CommentStarts(s)) - 1)

\* The normalized program: the clean lines that are not empty, in order.
NormalizedProgram ==
    SelectSeq([i \in 1..Len(stdin) |-> Clean(stdin[i])], LAMBDA l : l # <<>>)

\* A label declaration is a line that opens with "("; the name it declares
\* is what stands between its first and its last character.
IsDeclaration(l) == l[1] = "("
DeclaredName(l) == SubSeq(l, 2, Len(l) - 1)
DeclaredNames ==
    {DeclaredName(NormalizedProgram[i]) :
        i \in {j \in 1..Len(NormalizedProgram) :
                  IsDeclaration(NormalizedProgram[j])}}

\* The label-free program: the instructions, in order.
LabelFree == SelectSeq(NormalizedProgram, LAMBDA l : ~IsDeclaration(l))

IsAddressLine(l) == l[1] = "@"
Operand(l) == Tail(l)
IsNumeric(s) == s # <<>> /\ \A i \in 1..Len(s) : s[i] \in DigitChars

RECURSIVE DecimalValue(_)
DecimalValue(s) ==
    IF s = <<>> THEN 0
    ELSE DecimalValue(SubSeq(s, 1, Len(s) - 1)) * 10 + DigitValue(s[Len(s)])

\* The number a string of bits denotes, most significant bit first.
RECURSIVE BinaryValue(_)
BinaryValue(bits) ==
    IF bits = <<>> THEN 0
    ELSE 2 * BinaryValue(SubSeq(bits, 1, Len(bits) - 1))
             + (IF bits[Len(bits)] = "1" THEN 1 ELSE 0)

IsBits(s) == \A i \in 1..Len(s) : s[i] \in {"0", "1"}

\* The output line of an address instruction for address a: "0", then a
\* in 15 bits.
IsAddressWord(w, a) ==
    /\ Len(w) = 16
    /\ IsBits(w)
    /\ w[1] = "0"
    /\ BinaryValue(Tail(w)) = a

\* The lines of the printed text; the line end print itself adds
\* terminates the last one.
RECURSIVE SplitLines(_, _, _)
SplitLines(text, i, cur) ==
    IF i > Len(text) THEN <<cur>>
    ELSE IF text[i] = "\n" THEN <<cur>> \o SplitLines(text, i + 1, <<>>)
    ELSE SplitLines(text, i + 1, Append(cur, text[i]))

OutputLines ==
    IF Len(stdout) <= 1 THEN <<>>
    ELSE SplitLines(SubSeq(stdout, 1, Len(stdout) - 1), 1, <<>>)

\* The stages of the run: which passes have been run.
After_find_labels ==
    pc \in {"find_variables", "build_intermediary", "assemble", "print",
            "done", "aborted"}
After_find_variables ==
    pc \in {"build_intermediary", "assemble", "print", "done", "aborted"}
After_build_intermediary == pc \in {"assemble", "print", "done", "aborted"}
After_assemble == pc \in {"print", "done", "aborted"}

\* The compute instructions of the Hack language: [dest=]comp[;jump] with
\* each part a mnemonic of its table.  The set holds the (dest, jump) pairs
\* under which the line reads as one; no mnemonic contains "=" or ";", so
\* there is at most one.
DestPart(d) == IF d = None THEN <<>> ELSE d \o <<"=">>
JumpPart(j) == IF j = None THEN <<>> ELSE <<";">> \o j
Readings(l) ==
    {r \in (DOMAIN dest_table) \X (DOMAIN jump_table) :
        LET pre == DestPart(r[1])
            suf == JumpPart(r[2])
        IN  /\ Len(l) >= Len(pre) + Len(suf)
            /\ SubSeq(l, 1, Len(pre)) = pre
            /\ SubSeq(l, Len(l) - Len(suf) + 1, Len(l)) = suf
            /\ SubSeq(l, Len(pre) + 1, Len(l) - Len(suf))
                   \in (DOMAIN comp_table) \ {None}}
IsWellFormed(l) == Readings(l) # {}
ComputeWord(l) ==
    LET r == CHOOSE x \in Readings(l) : TRUE
        c == SubSeq(l, Len(DestPart(r[1])) + 1, Len(l) - Len(JumpPart(r[2])))
    IN  <<"1", "1", "1">> \o comp_table[c] \o dest_table[r[1]]
            \o jump_table[r[2]]

-----------------------------------------------------------------------------
(* The properties                                                          *)

\* C1: when the run completes, every line of the output is exactly 16
\* characters long and consists of "0" and "1" only, whatever decimal
\* literal an address instruction holds.
C1_EveryOutputLineIs16Bits ==
    pc = "done" =>
        \A k \in 1..Len(OutputLines) :
            Len(OutputLines[k]) = 16 /\ IsBits(OutputLines[k])

\* An address instruction with a decimal literal above 32767.
HasOutOfRangeLiteral ==
    \E k \in 1..Len(LabelFree) :
        /\ IsAddressLine(LabelFree[k])
        /\ IsNumeric(Operand(LabelFree[k]))
        /\ DecimalValue(Operand(LabelFree[k])) > 32767

\* C2: an address instruction whose integer operand is outside 0..32767
\* is fatal: the run stops and no machine code is emitted.
C2_OutOfRangeOperandIsFatal ==
    HasOutOfRangeLiteral => (pc \notin {"print", "done"} /\ stdout = <<>>)

\* C3: for every literal n in 0..32767, the output line of @n is "0"
\* followed by n in 15 bits, whatever the rest of the program declares.
C3_LiteralRoundTrip ==
    pc = "done" =>
        \A k \in 1..Len(LabelFree) :
            (/\ IsAddressLine(LabelFree[k])
             /\ IsNumeric(Operand(LabelFree[k]))
             /\ DecimalValue(Operand(LabelFree[k])) <= 32767)
            => (/\ k <= Len(OutputLines)
                /\ IsAddressWord(OutputLines[k],
                                 DecimalValue(Operand(LabelFree[k]))))

\* The address of the declaration on line i, and whether that line is the
\* one declaration of its name, closed by ")" and not predefined.
NonDeclarationsBefore(i) ==
    Cardinality({j \in 1..(i - 1) : ~IsDeclaration(NormalizedProgram[j])})

DeclaresOnce(i) ==
    LET l == NormalizedProgram[i]
    IN  /\ IsDeclaration(l)
        /\ Len(l) >= 2
        /\ l[Len(l)] = ")"
        /\ DeclaredName(l) \notin DOMAIN predefined_symbols
        /\ \A j \in 1..Len(NormalizedProgram) :
               (j # i /\ IsDeclaration(NormalizedProgram[j]))
               => DeclaredName(NormalizedProgram[j]) # DeclaredName(l)

\* C4: a label L that one line (L), and no other declaration, declares and
\* that is no predefined symbol is bound to the number of lines that are
\* not declarations before that line, and every @L, before or after the
\* declaration, is encoded with that address.
C4_LabelIsNextInstruction ==
    \A i \in 1..Len(NormalizedProgram) :
        DeclaresOnce(i) =>
            LET L == DeclaredName(NormalizedProgram[i])
                a == NonDeclarationsBefore(i)
                uses == {k \in 1..Len(LabelFree) : LabelFree[k] = <<"@">> \o L}
            IN  /\ After_find_labels => (L \in DOMAIN labels /\ labels[L] = a)
                /\ After_build_intermediary =>
                       \A k \in uses :
                           /\ k <= Len(intermediary_code)
                           /\ intermediary_code[k].type = "A"
                           /\ intermediary_code[k].address = a
                /\ pc = "done" =>
                       \A k \in uses :
                           /\ k <= Len(OutputLines)
                           /\ IsAddressWord(OutputLines[k], a)

\* A forward reference to a label whose declaration is the last line and
\* follows another declaration.
C4_Witness ==
    /\ pc = "done"
    /\ Len(NormalizedProgram) = 3
    /\ NormalizedProgram[1] = <<"@", "L">>
    /\ IsDeclaration(NormalizedProgram[2])
    /\ NormalizedProgram[3] = <<"(", "L", ")">>
    /\ DeclaresOnce(3)
    /\ IsAddressWord(OutputLines[1], 1)

\* The user variables of the program, and their first occurrences.
UserSymbols ==
    {Operand(LabelFree[k]) :
        k \in {j \in 1..Len(LabelFree) :
                  /\ IsAddressLine(LabelFree[j])
                  /\ ~IsNumeric(Operand(LabelFree[j]))
                  /\ Operand(LabelFree[j]) \notin DOMAIN predefined_symbols
                  /\ Operand(LabelFree[j]) \notin DeclaredNames}}

FirstOccurrence(s) ==
    SetMin({k \in 1..Len(LabelFree) : LabelFree[k] = <<"@">> \o s})

EarlierSymbols(s) ==
    {t \in UserSymbols : FirstOccurrence(t) < FirstOccurrence(s)}

\* C5: after find_variables the user variables (the operands of address
\* instructions that are not numeric, not predefined and not declared
\* labels) hold 16, 17, 18, ... in the order of their first occurrence in
\* the label-free program, and nothing else is allocated.
C5_VariablesFrom16InFirstOccurrenceOrder ==
    After_find_variables =>
        /\ DOMAIN heap[variables] = (DOMAIN predefined_symbols) \cup UserSymbols
        /\ \A s \in UserSymbols :
               /\ heap[variables][s].type = "int"
               /\ heap[variables][s].v = 16 + Cardinality(EarlierSymbols(s))

\* Two variables, the first used again after the second, beside a label
\* or a predefined symbol that gets no address.
C5_Witness ==
    /\ After_find_variables
    /\ Cardinality(UserSymbols) = 2
    /\ \E s \in UserSymbols :
           /\ heap[variables][s].v = 16
           /\ \E k \in 1..Len(LabelFree) :
                  /\ LabelFree[k] = <<"@">> \o s
                  /\ k > FirstOccurrence(s)
                  /\ \E t \in UserSymbols :
                         FirstOccurrence(s) < FirstOccurrence(t)
                         /\ FirstOccurrence(t) < k

\* The fixed address of a predefined name; a table that holds every
\* predefined binding as written; the names that were given an address.
FixedAddress(p) == DecimalValue(predefined_symbols[p].v)

SameTable(t) ==
    \A p \in DOMAIN predefined_symbols :
        /\ p \in DOMAIN t
        /\ t[p].type = "str"
        /\ t[p].v = predefined_symbols[p].v

Allocated == (DOMAIN heap[variables]) \ (DOMAIN predefined_symbols)

\* C6: every predefined name keeps its fixed address in the variable table
\* and in the class-level table, @p is encoded with that address also when
\* the program declares a label (p), and p takes no variable slot.
C6_PredefinedSymbolsAreImmutable ==
    /\ SameTable(heap[variables])
    /\ DOMAIN heap[ClassTable] = DOMAIN predefined_symbols
    /\ SameTable(heap[ClassTable])
    /\ \A s \in Allocated : heap[variables][s].type = "int"
    /\ {heap[variables][s].v : s \in Allocated}
           = 16..(15 + Cardinality(Allocated))
    /\ \A k \in 1..Len(LabelFree) :
           (/\ IsAddressLine(LabelFree[k])
            /\ Operand(LabelFree[k]) \in DOMAIN predefined_symbols)
           => LET a == FixedAddress(Operand(LabelFree[k]))
              IN  /\ After_build_intermediary =>
                         /\ k <= Len(intermediary_code)
                         /\ intermediary_code[k].type = "A"
                         /\ intermediary_code[k].address = a
                  /\ pc = "done" =>
                         /\ k <= Len(OutputLines)
                         /\ IsAddressWord(OutputLines[k], a)

\* (R3) is declared where its label is not 3, @R3 is used and a variable
\* is allocated in the same program.
C6_Witness ==
    /\ pc = "done"
    /\ <<"R", "3">> \in DOMAIN labels
    /\ labels[<<"R", "3">>] # 3
    /\ Allocated # {}
    /\ \E k \in 1..Len(LabelFree) :
           /\ LabelFree[k] = <<"@", "R", "3">>
           /\ IsAddressWord(OutputLines[k], 3)

\* An instruction with a token that is no key, and a program with a
\* compute line that is no instruction of the language.
TokenIsNoKey(ins) ==
    /\ ins.type = "C"
    /\ \/ ins.dest \notin DOMAIN dest_table
       \/ ins.comp \notin DOMAIN comp_table
       \/ ins.jump \notin DOMAIN jump_table

HasMalformedCompute ==
    \E k \in 1..Len(LabelFree) :
        ~IsAddressLine(LabelFree[k]) /\ ~IsWellFormed(LabelFree[k])

\* C7: a compute instruction with a destination, computation or jump token
\* that is no key of its table aborts the run in assemble, and nothing is
\* emitted, not even the lines before it.
C7_UnknownTokenAbortsWithNoOutput ==
    /\ After_build_intermediary =>
           (HasMalformedCompute <=>
               \E k \in 1..Len(intermediary_code) :
                   TokenIsNoKey(intermediary_code[k]))
    /\ HasMalformedCompute =>
           /\ pc \notin {"print", "done"}
           /\ After_assemble => pc = "aborted"
           /\ machine_code = <<>>
           /\ stdout = <<>>

\* The empty computation of "D=" behind an instruction that encodes.
C7_Witness ==
    /\ pc = "aborted"
    /\ LabelFree = << <<"D", "=", "A">>, <<"D", "=">> >>
    /\ TokenIsNoKey(intermediary_code[2])
    /\ stdout = <<>>

\* C8: when the run completes there is one output line for every line of
\* the normalized program that is no declaration, the k-th the encoding
\* of the k-th; build_intermediary gives one instruction per label-free
\* line and assemble one line per instruction, in order.
C8_OneOutputLinePerInstruction ==
    /\ After_find_labels => assembly_code = LabelFree
    /\ After_build_intermediary =>
           /\ Len(intermediary_code) = Len(LabelFree)
           /\ \A k \in 1..Len(intermediary_code) :
                  (intermediary_code[k].type = "A")
                      <=> IsAddressLine(LabelFree[k])
    /\ pc \in {"print", "done"} => Len(machine_code) = Len(intermediary_code)
    /\ pc = "done" =>
           /\ Len(OutputLines) = Len(LabelFree)
           /\ \A k \in 1..Len(OutputLines) :
                  IF IsAddressLine(LabelFree[k])
                  THEN /\ OutputLines[k][1] = "0"
                       /\ BinaryValue(Tail(OutputLines[k]))
                              = intermediary_code[k].address
                  ELSE OutputLines[k] = ComputeWord(LabelFree[k])

\* Declarations between an address and a compute instruction.
C8_Witness ==
    /\ pc = "done"
    /\ Len(LabelFree) >= 2
    /\ Len(NormalizedProgram) > Len(LabelFree)
    /\ \E k \in 1..Len(LabelFree) : IsAddressLine(LabelFree[k])
    /\ \E k \in 1..Len(LabelFree) : ~IsAddressLine(LabelFree[k])
    /\ IsDeclaration(NormalizedProgram[2])

\* C9 as stated: a name bound in the label table resolves to the label's
\* instruction index, also when the variable table holds the name.
C9_LabelTableFirst ==
    After_build_intermediary =>
        \A k \in 1..Len(LabelFree) :
            (IsAddressLine(LabelFree[k]) /\ Operand(LabelFree[k]) \in DOMAIN labels)
            => (/\ k <= Len(intermediary_code)
                /\ intermediary_code[k].type = "A"
                /\ intermediary_code[k].address = labels[Operand(LabelFree[k])])

\* C9 amended: the variable table is checked first.  A name bound in the
\* label table resolves to the label's index unless the variable table
\* holds it, which is so for the predefined symbols only: those resolve to
\* their fixed address.
C9_VariableTableFirst ==
    /\ After_find_variables =>
           (DOMAIN labels) \cap (DOMAIN heap[variables])
               \subseteq DOMAIN predefined_symbols
    /\ After_build_intermediary =>
           \A k \in 1..Len(LabelFree) :
               (IsAddressLine(LabelFree[k])
                    /\ Operand(LabelFree[k]) \in DOMAIN labels)
               => (/\ k <= Len(intermediary_code)
                   /\ intermediary_code[k].type = "A"
                   /\ intermediary_code[k].address =
                          IF Operand(LabelFree[k]) \in DOMAIN heap[variables]
                          THEN FixedAddress(Operand(LabelFree[k]))
                          ELSE labels[Operand(LabelFree[k])])

\* (R3) is declared where its label is not 3, and @R3 is used.
C9_Witness ==
    /\ After_build_intermediary
    /\ \E k \in 1..Len(LabelFree) :
           /\ LabelFree[k] = <<"@", "R", "3">>
           /\ <<"R", "3">> \in DOMAIN labels
           /\ labels[<<"R", "3">>] # intermediary_code[k].address

\* C10: remove_unnecessary takes every sequence of raw lines and leaves
\* lines that are not empty and hold no white space and no "//"; each is
\* its raw line without white space, cut at the first "//"; the lines that
\* come out empty are dropped and the others keep their order.
C10_NormalizedLines ==
    pc = "find_labels" =>
           /\ assembly_code = NormalizedProgram
           /\ \A i \in 1..Len(assembly_code) :
                  /\ assembly_code[i] # <<>>
                  /\ \A j \in 1..Len(assembly_code[i]) :
                         assembly_code[i][j] \notin Whitespace
                  /\ CommentStarts(assembly_code[i]) = {}

\* A comment marker that white space splits, on a line that is dropped,
\* and a line that is cut at its comment.
C10_Witness ==
    /\ pc = "find_labels"
    /\ Len(stdin) = 2
    /\ Len(assembly_code) = 1
    /\ \E i \in 1..Len(stdin) :
           /\ CommentStarts(stdin[i]) = {}
           /\ CommentStarts(NoSpace(stdin[i])) # {}
    /\ \E i \in 1..Len(stdin) :
           /\ Clean(stdin[i]) # <<>>
           /\ Clean(stdin[i]) # NoSpace(stdin[i])

====
